---- MODULE Spec2Model ----
(***************************************************************************)
(* AgentX LangChain service (agentx_langchain_service.py): the process-wide *)
(* ServiceState (model cache, tool registry, agent store, initialized flag) *)
(* and the request handlers that read and write it.  Every handler is an    *)
(* `async def` without an await, so one handler is one atomic step; the     *)
(* last part of the module takes the handlers statement by statement under *)
(* the event loop.                                                          *)
(*                                                                          *)
(* Text is a sequence of pieces: a piece is one character, or one fixed     *)
(* literal of the source (a template fragment or a message; the source's    *)
(* Chinese literals are written as ASCII tags).  Model names and calculator *)
(* expressions are sequences of single characters.                          *)
(***************************************************************************)
EXTENDS Integers, Sequences, FiniteSets, TLC

VARIABLES models, constructed, tools, agents, initialized, apiKey, resp, obs,
          pending, loop, starlette

vars == <<models, constructed, tools, agents, initialized, apiKey, resp, obs,
          pending, loop, starlette>>

(* ------------------------------ bounds --------------------------------- *)
\* handles constructed per model identifier before construction is cut off
MaxHandles == 2
\* longest calculator expression enumerated character by character
MaxExprLen == 3
\* requests in flight on the event loop
MaxTasks == 2

(* --------------------------- request values ---------------------------- *)
\* Python None in a field that otherwise holds a sequence
NoneSeq == <<"<None>">>
\* Python None in a field that otherwise holds a string
NoneStr == "<None>"

GPT35 == <<"g","p","t","-","3",".","5","-","t","u","r","b","o">>
CLAUDE2 == <<"c","l","a","u","d","e","-","2">>
EmptyName == <<>>

\* model identifiers a request may carry
ModelNames == {GPT35, CLAUDE2}

AgentIds == {"", "a1"}
\* the agent_type, tools and config fields an agent.create request may carry,
\* and whether initialize_agent returns for it (agentOk)
AgentInputs ==
    {[type |-> "conversational", tools |-> NoneSeq, config |-> NoneSeq,
      agentOk |-> TRUE],
     [type |-> "conversational", tools |-> <<"nope", "calculator">>,
      config |-> <<<<"k", "v">>>>, agentOk |-> TRUE],
     [type |-> "tool_using", tools |-> <<"nope", "calculator">>,
      config |-> <<<<"k", "v">>>>, agentOk |-> TRUE],
     [type |-> "tool_using", tools |-> <<"nope", "calculator">>,
      config |-> <<<<"k", "v">>>>, agentOk |-> FALSE],
     [type |-> "planner", tools |-> NoneSeq, config |-> NoneSeq, agentOk |-> TRUE]}

\* no handle cached / no agent stored under the key
NoHandle == 0
NoAgent == [type |-> "<absent>"]

(* ------------------------------ helpers -------------------------------- *)
IsPrefix(p, s) == Len(p) <= Len(s) /\ SubSeq(s, 1, Len(p)) = p

\* Python truthiness of an Optional[list] / Optional[dict]: `x or []`
OrEmpty(x) == IF x = NoneSeq THEN <<>> ELSE x

RECURSIVE SelectIn(_, _)
\* [x for x in s if x in S]
SelectIn(s, S) ==
    IF s = <<>> THEN <<>>
    ELSE IF Head(s) \in S THEN <<Head(s)>> \o SelectIn(Tail(s), S)
         ELSE SelectIn(Tail(s), S)

(* ---------------------------- model factory ---------------------------- *)
\* get_openai_api_key: raises unless OPENAI_API_KEY is set and non-empty
KeyPresent == apiKey

\* create_chat_model returns a client: the name starts with "gpt-" and the key is there
CanCreate(m) == IsPrefix(<<"g","p","t","-">>, m) /\ KeyPresent

\* str(e) of an HTTPException, which the except branches put into their
\* f-strings: "<status>: <detail>" with the starlette releases that define
\* __str__, the empty string with the older ones; the installed release is
\* the same for the life of the process
StarletteStr == {"status_detail", "empty"}
HttpStr(status, detail) ==
    IF starlette = "status_detail" THEN <<status, ": ">> \o detail ELSE <<>>

\* detail of the HTTPException create_chat_model raises: the f-string over
\* the HTTPException of get_openai_api_key, or over the ValueError
CreateError(m) ==
    IF IsPrefix(<<"g","p","t","-">>, m)
    THEN <<"create_model_failed: ">> \o HttpStr("500", <<"OPENAI_API_KEY unset">>)
    ELSE <<"create_model_failed: ", "unsupported_model: ">> \o m

\* the handle create_chat_model(m) returns: the next one constructed for m
NewHandle(m) == constructed[m] + 1

\* `if m not in state.models: state.models[m] = create_chat_model(m)` can complete
ResolveOk(m) == models[m] # NoHandle \/ CanCreate(m)

\* seeded fault: the statement without its membership test
ResolveBuildsAlways(m) == CanCreate(m)

\* whether that statement constructs a handle
ResolveBuilds(m) == models[m] = NoHandle /\ CanCreate(m)

\* seeded fault: a failed construction leaves an entry behind
ResolveModelsCachesFailure(m) ==
    IF models[m] = NoHandle THEN [models EXCEPT ![m] = NewHandle(m)] ELSE models

\* state.models after that statement
ResolveModels(m) ==
    IF ResolveBuilds(m) THEN [models EXCEPT ![m] = NewHandle(m)] ELSE models

\* the per-identifier count of ChatOpenAI constructions after that statement
ResolveConstructed(m) ==
    IF ResolveBuilds(m) THEN [constructed EXCEPT ![m] = @ + 1] ELSE constructed

\* construction is cut off at MaxHandles handles per identifier
WithinBound(m) == ResolveBuilds(m) => constructed[m] < MaxHandles

(* ------------------------------ responses ------------------------------ *)
\* status: "ok" a normal response, "soft" a response with success=false,
\* "fault" an HTTPException
Response(op, status, error, result) ==
    [op |-> op, status |-> status, error |-> error, result |-> result]

\* what the handler did: the model it resolved, whether the cache held it,
\* whether it constructed a handle, the handle it went on with, the tool
\* function calls it made with their input (and whether eval was reached),
\* the messages it gave the model, the chain type it ran, whether the agent
\* store held a record under the request's agent_id when the handler began
Observed(m, hit, built) ==
    [model |-> m, hit |-> hit, built |-> built, handle |-> NoHandle,
     calls |-> 0, tool |-> NoneStr, input |-> <<>>, evaluated |-> FALSE,
     context |-> <<>>, ran |-> NoneStr, had |-> FALSE]

ObservedResolve(m) ==
    [Observed(m, models[m] # NoHandle, ResolveBuilds(m))
        EXCEPT !.handle = ResolveModels(m)[m]]

NoObservation == Observed(NoneSeq, FALSE, FALSE)

(* ------------------------------- tools --------------------------------- *)
BuiltinTools == {"calculator", "search", "weather"}

\* tool names a request may carry
ToolNames == BuiltinTools \cup {"nope"}

\* a tool request: the name and the argument mapping, a sequence of
\* <<key, value>> entries in the order of the dict
ToolRequest(name, args) == [tool_name |-> name, arguments |-> args]
NoRequest == ToolRequest(NoneStr, <<>>)

(* ----------------------------- event loop ------------------------------ *)
\* the handler coroutines the event loop holds: where each one is (idle: no
\* request; check: before `if request.model not in state.models`; store:
\* before create_chat_model and the cache write; tail: before
\* `model = state.models[request.model]`), its request, the outcome of its
\* membership test; and the coroutine the loop is running
Tasks == 1..MaxTasks
NoTask == 0
IdleTask == [pc |-> "idle", op |-> "none", model |-> NoneSeq, miss |-> FALSE]
NoLoop == [running |-> NoTask, task |-> [t \in Tasks |-> IdleTask]]

(* ------------------------------- state --------------------------------- *)
Init ==
    /\ models = [m \in ModelNames |-> NoHandle]
    /\ constructed = [m \in ModelNames |-> 0]
    /\ tools = {}
    /\ agents = [a \in AgentIds |-> NoAgent]
    /\ initialized = FALSE
    /\ apiKey \in BOOLEAN
    /\ resp = Response("none", "ok", <<>>, <<>>)
    /\ obs = NoObservation
    /\ pending = NoRequest
    /\ loop = NoLoop
    /\ starlette \in StarletteStr

\* the operator of the process sets or unsets OPENAI_API_KEY
SetEnv(k) ==
    /\ apiKey # k
    /\ apiKey' = k
    /\ UNCHANGED <<models, constructed, tools, agents, initialized, resp, obs,
                   pending, loop, starlette>>

(* ----------------------------- initialize ------------------------------ *)
\* seeded fault: a failed preload evicts the entry of the default model
InitializeModelsEvicts ==
    IF CanCreate(GPT35) THEN [models EXCEPT ![GPT35] = NewHandle(GPT35)]
    ELSE [models EXCEPT ![GPT35] = NoHandle]

\* state.models after the preload loop of initialize_service: the handle is
\* constructed and stored without a look at the cache
InitializeModels ==
    IF CanCreate(GPT35) THEN [models EXCEPT ![GPT35] = NewHandle(GPT35)] ELSE models

\* seeded fault: the weather tool is left out of the registration
InitializeToolsWithoutWeather == tools \cup {"calculator", "search"}

\* state.tools after `state.tools.update({tool.name: tool ...})`
InitializeTools == tools \cup BuiltinTools

\* seeded fault: the failure of the preload is not caught in the loop
InitializeResponseFatal ==
    IF CanCreate(GPT35)
    THEN Response("initialize", "ok", <<>>, <<"init_ok">>)
    ELSE Response("initialize", "fault", <<"init_failed: ">> \o CreateError(GPT35), <<>>)

\* the inner try/except logs the failure; the handler returns success
InitializeResponse == Response("initialize", "ok", <<>>, <<"init_ok">>)

InitializeService ==
    /\ CanCreate(GPT35) => constructed[GPT35] < MaxHandles
    /\ tools' = InitializeTools
    /\ models' = InitializeModels
    /\ constructed' = IF CanCreate(GPT35)
                         THEN [constructed EXCEPT ![GPT35] = @ + 1]
                         ELSE constructed
    /\ initialized' = TRUE
    /\ resp' = InitializeResponse
    /\ obs' = [Observed(GPT35, models[GPT35] # NoHandle, CanCreate(GPT35))
                 EXCEPT !.handle = InitializeModels[GPT35]]
    /\ UNCHANGED <<agents, apiKey, pending, loop, starlette>>

(* -------------------------------- chat --------------------------------- *)
Roles == {"user", "assistant", "system", "tool"}

Msg(role) == [role |-> role, content |-> <<"h", "i">>]

\* message lists a chat request may carry
MessageInputs ==
    {<<Msg("system"), Msg("user"), Msg("assistant")>>,
     <<Msg("user"), Msg("tool"), Msg("assistant")>>}

\* seeded fault: a final else branch that keeps the message as a HumanMessage
BuildMessagesKeepsAll(msgs) ==
    [i \in 1..Len(msgs) |->
        [kind |-> IF msgs[i].role = "assistant" THEN "AIMessage"
                  ELSE IF msgs[i].role = "system" THEN "SystemMessage"
                  ELSE "HumanMessage",
         content |-> msgs[i].content]]

RECURSIVE BuildMessages(_)
\* the if/elif chain of chat: HumanMessage, AIMessage, SystemMessage, else nothing
BuildMessages(msgs) ==
    IF msgs = <<>> THEN <<>>
    ELSE LET m == Head(msgs)
             rest == BuildMessages(Tail(msgs))
         IN IF m.role = "user"
            THEN <<[kind |-> "HumanMessage", content |-> m.content]>> \o rest
            ELSE IF m.role = "assistant"
            THEN <<[kind |-> "AIMessage", content |-> m.content]>> \o rest
            ELSE IF m.role = "system"
            THEN <<[kind |-> "SystemMessage", content |-> m.content]>> \o rest
            ELSE rest

\* invokeOk: whether the provider call model(messages) returns (it is external)
Chat(m, msgs, invokeOk) ==
    /\ WithinBound(m)
    /\ models' = ResolveModels(m)
    /\ constructed' = ResolveConstructed(m)
    /\ IF ~ResolveOk(m)
       THEN /\ resp' = Response("chat", "fault",
                                 <<"chat_failed: ">> \o HttpStr("500", CreateError(m)), <<>>)
            /\ obs' = ObservedResolve(m)
       ELSE /\ obs' = [ObservedResolve(m) EXCEPT !.context = BuildMessages(msgs)]
            /\ resp' = IF invokeOk
                        THEN Response("chat", "ok", <<>>, <<"<content>">> \o m)
                        ELSE Response("chat", "fault",
                                      <<"chat_failed: ", "<provider error>">>, <<>>)
    /\ UNCHANGED <<tools, agents, initialized, apiKey, pending, loop, starlette>>

(* -------------------------------- chain -------------------------------- *)
\* chain_config["type"]; NoneStr when the key is missing
ChainTypeInputs == {NoneStr, "llm", "conversation", "unknown"}

\* seeded fault: get("type") without the default
ChainTypeNoDefault(t) == t

\* chain_config.get("type", "llm")
ChainType(t) == IF t = NoneStr THEN "llm" ELSE t

\* runOk: whether building and running the chain returns (it is external)
ExecuteChain(m, t, runOk) ==
    /\ WithinBound(m)
    /\ models' = ResolveModels(m)
    /\ constructed' = ResolveConstructed(m)
    /\ IF ~ResolveOk(m)
       THEN /\ resp' = Response("chain", "soft", HttpStr("500", CreateError(m)), <<>>)
            /\ obs' = ObservedResolve(m)
       ELSE IF ChainType(t) \in {"llm", "conversation"}
       THEN /\ obs' = [ObservedResolve(m) EXCEPT !.ran = ChainType(t)]
            /\ resp' = IF runOk
                        THEN Response("chain", "ok", <<>>, <<"<chain result>">>)
                        ELSE Response("chain", "soft", <<"<chain error>">>, <<>>)
       ELSE /\ obs' = ObservedResolve(m)
            /\ resp' = Response("chain", "soft",
                                 <<"unsupported_chain_type: ", ChainType(t)>>, <<>>)
    /\ UNCHANGED <<tools, agents, initialized, apiKey, pending, loop, starlette>>

(* ---------------------------- agent lifecycle -------------------------- *)
\* the record create_agent stores for a request of a supported type
AgentData(type, m, handle, toolNames, config) ==
    [type |-> type,
     llm |-> <<m, handle>>,
     memory |-> (type = "conversational"),
     agent_tools |-> IF type = "tool_using"
                     THEN SelectIn(OrEmpty(toolNames), tools) ELSE <<>>,
     tools |-> OrEmpty(toolNames),
     config |-> OrEmpty(config)]

\* seeded fault: the store keeps the record it has: setdefault for the assignment
StoreAgentIfAbsent(id, data) ==
    IF agents[id] = NoAgent THEN [agents EXCEPT ![id] = data] ELSE agents

\* state.agents after `state.agents[agent_id] = agent_data`
StoreAgent(id, data) == [agents EXCEPT ![id] = data]

\* seeded fault: the record is stored before initialize_agent is called
CreateAgentStoreEarly(id, type, m, toolNames, config, agentOk) ==
    IF type \in {"conversational", "tool_using"}
    THEN StoreAgent(id, AgentData(type, m, models'[m], toolNames, config))
    ELSE agents

\* state.agents after the branches of create_agent, the model resolved:
\* line 417 is reached from the two supported types if nothing raised
CreateAgentStore(id, type, m, toolNames, config, agentOk) ==
    IF type = "conversational" \/ (type = "tool_using" /\ agentOk)
    THEN StoreAgent(id, AgentData(type, m, models'[m], toolNames, config))
    ELSE agents

\* agentOk: whether initialize_agent returns (it is external)
CreateAgent(id, type, m, toolNames, config, agentOk) ==
    /\ WithinBound(m)
    /\ models' = ResolveModels(m)
    /\ constructed' = ResolveConstructed(m)
    /\ obs' = [ObservedResolve(m) EXCEPT !.had = (agents[id] # NoAgent)]
    /\ IF ~ResolveOk(m)
       THEN /\ resp' = Response("agent.create", "fault",
                                 <<"create_agent_failed: ">> \o HttpStr("500", CreateError(m)), <<>>)
            /\ agents' = agents
       ELSE IF type = "conversational" \/ (type = "tool_using" /\ agentOk)
       THEN /\ agents' = CreateAgentStore(id, type, m, toolNames, config, agentOk)
            /\ resp' = Response("agent.create", "ok", <<>>, <<id>>)
       ELSE /\ agents' = CreateAgentStore(id, type, m, toolNames, config, agentOk)
            /\ resp' = Response("agent.create", "fault",
                                 IF type = "tool_using"
                                 THEN <<"create_agent_failed: ", "<toolkit error>">>
                                 ELSE <<"create_agent_failed: ",
                                        "unsupported_agent_type: ", type>>, <<>>)
    /\ UNCHANGED <<tools, initialized, apiKey, pending, loop, starlette>>

\* seeded fault: `is None` for the truthiness test
FalsyNoneOnly(x) == x = NoneStr

\* Python truthiness of request.get(key) for a string-valued field
Falsy(x) == x = NoneStr \/ x = ""

\* seeded fault: the store is cleared
RemoveAgentAll(id) == [a \in AgentIds |-> NoAgent]

\* state.agents after `if agent_id in state.agents: del state.agents[agent_id]`
RemoveAgent(id) == IF id \in AgentIds THEN [agents EXCEPT ![id] = NoAgent] ELSE agents

\* id: request.get("agent_id"); NoneStr when the key is missing
DeleteAgent(id) ==
    /\ IF Falsy(id)
       THEN /\ agents' = agents
            /\ resp' = Response("agent.delete", "fault",
                                 <<"delete_agent_failed: ">>
                                     \o HttpStr("400", <<"missing agent_id">>), <<>>)
       ELSE /\ agents' = RemoveAgent(id)
            /\ resp' = Response("agent.delete", "ok", <<>>, <<>>)
    /\ obs' = [NoObservation EXCEPT !.had = (id \in AgentIds /\ agents[id] # NoAgent)]
    /\ UNCHANGED <<models, constructed, tools, initialized, apiKey, pending, loop, starlette>>

(* ------------------------------- preload ------------------------------- *)
\* m: request.get("model"); NoneSeq when the key is missing
PreloadModel(m) ==
    IF m = NoneSeq \/ m = <<>>
    THEN /\ resp' = Response("model.preload", "fault",
                              <<"preload_model_failed: ">>
                                  \o HttpStr("400", <<"missing model">>), <<>>)
         /\ obs' = NoObservation
         /\ UNCHANGED <<models, constructed, tools, agents, initialized, apiKey,
                      pending, loop, starlette>>
    ELSE /\ WithinBound(m)
         /\ models' = ResolveModels(m)
         /\ constructed' = ResolveConstructed(m)
         /\ obs' = ObservedResolve(m)
         /\ resp' = IF ResolveOk(m)
                     THEN Response("model.preload", "ok", <<>>, m)
                     ELSE Response("model.preload", "fault",
                                   <<"preload_model_failed: ">> \o HttpStr("500", CreateError(m)),
                                   <<>>)
         /\ UNCHANGED <<tools, agents, initialized, apiKey, pending, loop, starlette>>

\* t: request.get("tool"); NoneStr when the key is missing
PreloadTool(t) ==
    /\ resp' = IF Falsy(t)
                THEN Response("tool.preload", "fault",
                              <<"preload_tool_failed: ">>
                                  \o HttpStr("400", <<"missing tool">>), <<>>)
                ELSE Response("tool.preload", "ok", <<>>, <<t>>)
    /\ obs' = NoObservation
    /\ UNCHANGED <<models, constructed, tools, agents, initialized, apiKey,
                      pending, loop, starlette>>

(* ------------------- Python arithmetic behind eval --------------------- *)
(* A value is an int, a float, the empty tuple, Ellipsis, a raised         *)
(* exception, or an outcome this arithmetic does not determine (kind       *)
(* "unknown": some float, complex number or exception).                    *)
(* A float is the double nearest to the rational n/d (d > 0, reduced); nz  *)
(* marks the float -0.0; exact: the double equals n/d.  An operation on a  *)
(* float that is not exact rounds a quantity that is not n/d, so its       *)
(* outcome is not determined here.                                         *)
(***************************************************************************)
DigitChars == <<"0", "1", "2", "3", "4", "5", "6", "7", "8", "9">>
Digits == {DigitChars[i] : i \in 1..10}
DigitVal(c) == (CHOOSE i \in 1..10 : DigitChars[i] = c) - 1

Abs(x) == IF x < 0 THEN -x ELSE x

RECURSIVE GCD(_, _)
GCD(a, b) == IF b = 0 THEN a ELSE GCD(b, a % b)

RECURSIVE IntPow(_, _)
IntPow(b, e) == IF e = 0 THEN 1 ELSE b * IntPow(b, e - 1)

\* floor(a / b) for b # 0, as Python's // on ints
FloorDiv(a, b) == IF b > 0 THEN a \div b ELSE (-a) \div (-b)

RECURSIVE StripFactor(_, _)
\* n without its factors p
StripFactor(n, p) == IF n % p = 0 THEN StripFactor(n \div p, p) ELSE n

Dyadic(d) == StripFactor(d, 2) = 1
Terminating(d) == StripFactor(StripFactor(d, 2), 5) = 1

IntVal(n) ==
    [k |-> "int", n |-> n, d |-> 1, nz |-> FALSE, exact |-> TRUE, e |-> NoneStr]
TupleVal == [IntVal(0) EXCEPT !.k = "tuple"]
EllipsisVal == [IntVal(0) EXCEPT !.k = "ellipsis"]
Raise(e) == [IntVal(0) EXCEPT !.k = "raise", !.e = e]
UnknownVal == [IntVal(0) EXCEPT !.k = "unknown"]

\* the float nearest to n/d (d # 0)
FloatVal(n, d, nz) ==
    LET g == GCD(Abs(n), Abs(d))
        s == IF d < 0 THEN -1 ELSE 1
    IN [k |-> "float", n |-> s * (n \div g), d |-> Abs(d) \div g,
        nz |-> (n = 0 /\ nz), exact |-> Dyadic(Abs(d) \div g), e |-> NoneStr]

\* the sign bit of a number
Negative(x) == x.n < 0 \/ (x.n = 0 /\ x.nz)

\* unary + and -
UnOp(op, x) ==
    IF x.k \in {"raise", "unknown"} THEN x
    ELSE IF x.k \in {"tuple", "ellipsis"} THEN Raise("TypeError")
    ELSE IF op = "+" THEN x
    ELSE IF x.k = "int" THEN IntVal(-x.n)
    ELSE [x EXCEPT !.n = -x.n, !.nz = (x.n = 0 /\ ~x.nz)]

\* x ** y for numbers, y of integral value.  A float power is the C
\* library's pow, which gives the power itself where a double holds it and
\* is not bound to give the nearest double where none does.
PowInt(x, y) ==
    LET ex == y.n \div y.d
        fl == x.k = "float" \/ y.k = "float" \/ ex < 0
        inv == FloatVal(IntPow(x.d, -ex), IntPow(x.n, -ex), FALSE)
    IN IF ex < 0 /\ x.n = 0 THEN Raise("ZeroDivisionError")
       ELSE IF ~fl THEN IntVal(IntPow(x.n, ex))
       ELSE IF ex = 0 THEN FloatVal(1, 1, FALSE)
       ELSE IF ~x.exact THEN UnknownVal
       ELSE IF ex > 0
       THEN FloatVal(IntPow(x.n, ex), IntPow(x.d, ex), Negative(x) /\ ex % 2 = 1)
       ELSE IF inv.exact THEN inv
       ELSE UnknownVal

\* a binary operator on two numbers, one of them a float or the operator /
FloatOp(op, x, y) ==
    IF op \in {"/", "//"} /\ y.n = 0 THEN Raise("ZeroDivisionError")
    ELSE IF ~(x.exact /\ y.exact) THEN UnknownVal
    ELSE IF op = "+"
    THEN FloatVal(x.n * y.d + y.n * x.d, x.d * y.d,
                  x.n = 0 /\ y.n = 0 /\ x.nz /\ y.nz)
    ELSE IF op = "-"
    THEN FloatVal(x.n * y.d - y.n * x.d, x.d * y.d,
                  x.n = 0 /\ y.n = 0 /\ x.nz /\ ~y.nz)
    ELSE IF op = "*"
    THEN FloatVal(x.n * y.n, x.d * y.d, Negative(x) # Negative(y))
    ELSE IF op = "/"
    THEN FloatVal(x.n * y.d, x.d * y.n, Negative(x) # Negative(y))
    ELSE FloatVal(FloorDiv(x.n * y.d, x.d * y.n), 1,
                  x.n = 0 /\ Negative(x) # Negative(y))

\* x op y as the interpreter computes it; the left operand's exception wins
BinOp(op, x, y) ==
    IF x.k \in {"raise", "unknown"} THEN x
    ELSE IF y.k \in {"raise", "unknown"} THEN y
    ELSE IF x.k = "ellipsis" \/ y.k = "ellipsis" THEN Raise("TypeError")
    ELSE IF x.k = "tuple" \/ y.k = "tuple"
    THEN IF op = "+" /\ x.k = "tuple" /\ y.k = "tuple" THEN TupleVal
         ELSE IF op = "*" /\ "int" \in {x.k, y.k} THEN TupleVal
         ELSE Raise("TypeError")
    ELSE IF op = "**"
    THEN IF y.d = 1 THEN PowInt(x, y)
         ELSE IF x.n = 0
         THEN IF y.n < 0 THEN Raise("ZeroDivisionError")
              ELSE FloatVal(0, 1, FALSE)
         \* a root: a float, or a complex number when the base is negative
         ELSE UnknownVal
    ELSE IF x.k = "int" /\ y.k = "int" /\ op # "/"
    THEN IF op = "+" THEN IntVal(x.n + y.n)
         ELSE IF op = "-" THEN IntVal(x.n - y.n)
         ELSE IF op = "*" THEN IntVal(x.n * y.n)
         ELSE IF y.n = 0 THEN Raise("ZeroDivisionError")
         ELSE IntVal(FloorDiv(x.n, y.n))
    ELSE FloatOp(op, x, y)

\* f(a): no value of this arithmetic is callable
Call(f, a) ==
    IF f.k \in {"raise", "unknown"} THEN f
    ELSE IF a.k \in {"raise", "unknown"} THEN a
    ELSE Raise("TypeError")

(* ------------------------- str() of a value ---------------------------- *)
RECURSIVE NatText(_)
\* the decimal digits of n >= 0
NatText(n) ==
    IF n < 10 THEN <<DigitChars[n + 1]>>
    ELSE NatText(n \div 10) \o <<DigitChars[(n % 10) + 1]>>

IntText(n) == IF n < 0 THEN <<"-">> \o NatText(-n) ELSE NatText(n)

RECURSIVE FracText(_, _)
\* the digits after the point of r/d, 0 <= r < d, d with no prime factor but 2 and 5
FracText(r, d) ==
    IF r = 0 THEN <<>>
    ELSE <<DigitChars[((r * 10) \div d) + 1]>> \o FracText((r * 10) % d, d)

RECURSIVE SigDigits(_)
\* the number of digits of ds from its first digit that is not zero
SigDigits(ds) ==
    IF ds = <<>> THEN 0
    ELSE IF Head(ds) = "0" THEN SigDigits(Tail(ds))
    ELSE Len(ds)

\* repr of a float: the shortest decimal that reads back as the same double,
\* in positional notation from 0.0001 on.  A decimal of at most 15
\* significant digits is the shortest one of the double nearest to it, so
\* the digits are written where n/d is such a decimal; any other double is
\* written as the quotient it is nearest to.
FloatText(x) ==
    LET a == Abs(x.n)
        sign == IF Negative(x) THEN <<"-">> ELSE <<>>
        fixed == a = 0 \/ a >= x.d \/ a * 10000 >= x.d
        whole == NatText(a \div x.d)
        frac == FracText(a % x.d, x.d)
    IN IF Terminating(x.d) /\ fixed /\ SigDigits(whole \o frac) <= 15
       THEN sign \o whole \o <<".">> \o (IF frac = <<>> THEN <<"0">> ELSE frac)
       ELSE <<"<double ">> \o IntText(x.n) \o <<"/">> \o NatText(x.d) \o <<">">>

\* str(result) for a value that is no exception
Str(x) ==
    IF x.k = "int" THEN IntText(x.n)
    ELSE IF x.k = "tuple" THEN <<"(", ")">>
    ELSE IF x.k = "ellipsis" THEN <<"Ellipsis">>
    ELSE IF x.k = "unknown" THEN <<"<unknown>">>
    ELSE FloatText(x)

(* ------------------------------ tokens --------------------------------- *)
RECURSIVE RunEnd(_, _)
\* the first position from i on that holds no digit
RunEnd(s, i) == IF i <= Len(s) /\ s[i] \in Digits THEN RunEnd(s, i + 1) ELSE i

RECURSIVE DigitsVal(_)
DigitsVal(ds) ==
    IF ds = <<>> THEN 0
    ELSE DigitsVal(SubSeq(ds, 1, Len(ds) - 1)) * 10 + DigitVal(ds[Len(ds)])

Token(t, v) == [t |-> t, v |-> v]

\* the number literal of s that starts at i and ends before j; a decimal
\* integer with a leading zero and a digit that is not zero is no literal
NumberToken(s, i, j) ==
    LET lit == SubSeq(s, i, j - 1)
        p == RunEnd(s, i)
        ip == SubSeq(s, i, p - 1)
        fp == SubSeq(s, p + 1, j - 1)
    IN IF p = j
       THEN IF Len(ip) > 1 /\ ip[1] = "0" /\ \E q \in 1..Len(ip) : ip[q] # "0"
            THEN Token("bad", IntVal(0))
            ELSE Token("num", IntVal(DigitsVal(ip)))
       ELSE Token("num", FloatVal(DigitsVal(ip \o fp), IntPow(10, Len(fp)), FALSE))

RECURSIVE Lex(_, _)
\* the tokens of s from position i on
Lex(s, i) ==
    IF i > Len(s) THEN <<>>
    ELSE LET c == s[i]
             p == RunEnd(s, i)
             \* end of a literal digits [. digits] or . digits
             j == IF p <= Len(s) /\ s[p] = "." THEN RunEnd(s, p + 1) ELSE p
         IN IF c = " " THEN Lex(s, i + 1)
            ELSE IF c \in Digits \/ (c = "." /\ j > i + 1)
            THEN <<NumberToken(s, i, j)>> \o Lex(s, j)
            ELSE IF c = "." /\ i + 2 <= Len(s) /\ s[i + 1] = "." /\ s[i + 2] = "."
            THEN <<Token("...", IntVal(0))>> \o Lex(s, i + 3)
            ELSE IF c \in {"*", "/"} /\ i < Len(s) /\ s[i + 1] = c
            THEN <<Token(c \o c, IntVal(0))>> \o Lex(s, i + 2)
            ELSE IF c \in {"+", "-", "*", "/", "(", ")", "."}
            THEN <<Token(c, IntVal(0))>> \o Lex(s, i + 1)
            ELSE <<Token("bad", IntVal(0))>> \o Lex(s, i + 1)

(* ---------------- the expression grammar, evaluated -------------------- *)
(* Parse reads one phrase of ts from position i and returns whether it is  *)
(* one, the position after it and its value.  Exceptions are               *)
(* values, so a phrase after a raising one is still parsed: a syntax error *)
(* anywhere wins over every exception of the evaluation.                   *)
(***************************************************************************)
Parsed(i, v) == [ok |-> TRUE, i |-> i, v |-> v]
NoParse == [ok |-> FALSE, i |-> 0, v |-> IntVal(0)]

At(ts, i, S) == i <= Len(ts) /\ ts[i].t \in S

RECURSIVE Parse(_, _, _, _)
\* One operator for the grammar's rules, which call one another:
\*   sum:      term (('+' | '-') term)*
\*   term:     factor (('*' | '/' | '//') factor)*
\*   factor:   ('+' | '-') factor | power
\*   power:    primary ['**' factor]
\*   primary:  atom ('(' [['*' | '**'] sum] ')')*
\*   atom:     NUMBER | '...' | '(' ')' | '(' sum ')'
\* "sum+", "term+" and "primary+" continue a rule whose value so far is acc.
Parse(rule, ts, i, acc) ==
    IF rule = "sum"
    THEN LET l == Parse("term", ts, i, acc)
         IN IF l.ok THEN Parse("sum+", ts, l.i, l.v) ELSE NoParse
    ELSE IF rule = "sum+"
    THEN IF At(ts, i, {"+", "-"})
         THEN LET r == Parse("term", ts, i + 1, acc)
              IN IF r.ok THEN Parse("sum+", ts, r.i, BinOp(ts[i].t, acc, r.v))
                 ELSE NoParse
         ELSE Parsed(i, acc)
    ELSE IF rule = "term"
    THEN LET l == Parse("factor", ts, i, acc)
         IN IF l.ok THEN Parse("term+", ts, l.i, l.v) ELSE NoParse
    ELSE IF rule = "term+"
    THEN IF At(ts, i, {"*", "/", "//"})
         THEN LET r == Parse("factor", ts, i + 1, acc)
              IN IF r.ok THEN Parse("term+", ts, r.i, BinOp(ts[i].t, acc, r.v))
                 ELSE NoParse
         ELSE Parsed(i, acc)
    ELSE IF rule = "factor"
    THEN IF At(ts, i, {"+", "-"})
         THEN LET f == Parse("factor", ts, i + 1, acc)
              IN IF f.ok THEN Parsed(f.i, UnOp(ts[i].t, f.v)) ELSE NoParse
         ELSE Parse("power", ts, i, acc)
    ELSE IF rule = "power"
    THEN LET a == Parse("atom", ts, i, acc)
             b == IF a.ok THEN Parse("primary+", ts, a.i, a.v) ELSE NoParse
         IN IF b.ok /\ At(ts, b.i, {"**"})
            THEN LET x == Parse("factor", ts, b.i + 1, acc)
                 IN IF x.ok THEN Parsed(x.i, BinOp("**", b.v, x.v)) ELSE NoParse
            ELSE b
    ELSE IF rule = "primary+"
    THEN IF At(ts, i, {"("})
         THEN IF At(ts, i + 1, {")"})
              THEN Parse("primary+", ts, i + 2, Call(acc, IntVal(0)))
              ELSE LET a == Parse("sum", ts,
                                  IF At(ts, i + 1, {"*", "**"}) THEN i + 2 ELSE i + 1,
                                  acc)
                   IN IF a.ok /\ At(ts, a.i, {")"})
                      THEN Parse("primary+", ts, a.i + 1, Call(acc, a.v))
                      ELSE NoParse
         ELSE Parsed(i, acc)
    ELSE \* atom
         IF At(ts, i, {"num"}) THEN Parsed(i + 1, ts[i].v)
         ELSE IF At(ts, i, {"..."}) THEN Parsed(i + 1, EllipsisVal)
         ELSE IF At(ts, i, {"("})
         THEN IF At(ts, i + 1, {")"}) THEN Parsed(i + 2, TupleVal)
              ELSE LET x == Parse("sum", ts, i + 1, acc)
                   IN IF x.ok /\ At(ts, x.i, {")"}) THEN Parsed(x.i + 1, x.v)
                      ELSE NoParse
         ELSE NoParse

\* eval(expression) for an expression of allowed characters
Eval(expression) ==
    LET ts == Lex(expression, 1)
        r == Parse("sum", ts, 1, IntVal(0))
    IN IF r.ok /\ r.i = Len(ts) + 1 THEN r.v ELSE Raise("SyntaxError")

(* --------------------------- built-in tools ---------------------------- *)
\* seeded fault: the statement separator is let through
AllowedCharsWithSemicolon == Digits \cup {"+", "-", "*", "/", ".", "(", ")", " ", ";"}

\* allowed_chars of calculator
AllowedChars == Digits \cup {"+", "-", "*", "/", ".", "(", ")", " "}

\* calculator(expression): the text it returns (the value, or the text of
\* whatever eval raised), and whether eval was reached
Calculator(expression) ==
    IF \E i \in 1..Len(expression) : expression[i] \notin AllowedChars
    THEN [text |-> <<"error: disallowed characters">>, evaluated |-> FALSE,
          raised |-> FALSE]
    ELSE LET r == Eval(expression)
         IN [text |-> IF r.k = "raise" THEN <<"calc_error: ", r.e>> ELSE Str(r),
             evaluated |-> TRUE, raised |-> FALSE]

SearchTool(query) ==
    [text |-> <<"search_result: about '">> \o query \o <<"' (mock result)">>,
     evaluated |-> FALSE, raised |-> FALSE]

WeatherTool(location) ==
    [text |-> location \o <<" weather: sunny, 25C (mock result)">>,
     evaluated |-> FALSE, raised |-> FALSE]

\* tool.func(input_value) for the tool registered under name: its text (the
\* return value, or str(e) when it raised), whether it raised
ToolFunc(name, input) ==
    IF name = "calculator" THEN Calculator(input)
    ELSE IF name = "search" THEN SearchTool(input)
    ELSE WeatherTool(input)

(* ------------------------------ tool call ------------------------------ *)
(* The characters of an argument's key or value.  A printable ASCII        *)
(* character (U+0020 to U+007E) other than the grave accent is a piece of   *)
(* its own, and so are tab, line feed, form feed and carriage return.       *)
(* Every other character is written as seven pieces: "U+" and the six       *)
(* hexadecimal digits of its code point (U+00E9 is "U+", "0", "0", "0",     *)
(* "0", "e", "9"; the grave accent is "U+", "0", "0", "0", "0", "6", "0").  *)
(***************************************************************************)
\* the printable ASCII characters of code points 32 to 95 and 97 to 126
AsciiLow ==
    <<" ", "!", "\"", "#", "$", "%", "&", "'", "(", ")", "*", "+",
      ",", "-", ".", "/", "0", "1", "2", "3", "4", "5", "6", "7",
      "8", "9", ":", ";", "<", "=", ">", "?", "@", "A", "B", "C",
      "D", "E", "F", "G", "H", "I", "J", "K", "L", "M", "N", "O",
      "P", "Q", "R", "S", "T", "U", "V", "W", "X", "Y", "Z", "[",
      "\\", "]", "^", "_">>

AsciiHigh ==
    <<"a", "b", "c", "d", "e", "f", "g", "h", "i", "j", "k", "l",
      "m", "n", "o", "p", "q", "r", "s", "t", "u", "v", "w", "x",
      "y", "z", "{", "|", "}", "~">>

HexChars == <<"0", "1", "2", "3", "4", "5", "6", "7", "8", "9",
              "a", "b", "c", "d", "e", "f">>

\* the code point of a character that is a piece of its own
CodePoint(c) ==
    CASE c = "\t" -> 9
      [] c = "\n" -> 10
      [] c = "\f" -> 12
      [] c = "\r" -> 13
      [] \E i \in 1..Len(AsciiLow) : AsciiLow[i] = c ->
            (CHOOSE i \in 1..Len(AsciiLow) : AsciiLow[i] = c) + 31
      [] OTHER -> (CHOOSE i \in 1..Len(AsciiHigh) : AsciiHigh[i] = c) + 96

RECURSIVE HexVal(_)
\* the number a sequence of hexadecimal digits writes
HexVal(ds) ==
    IF ds = <<>> THEN 0
    ELSE HexVal(SubSeq(ds, 1, Len(ds) - 1)) * 16
         + (CHOOSE i \in 1..16 : HexChars[i] = ds[Len(ds)]) - 1

\* \uxxxx for a 16-bit code unit
JsonUnit(u) ==
    <<"\\", "u", HexChars[(u \div 4096) + 1], HexChars[((u \div 256) % 16) + 1],
      HexChars[((u \div 16) % 16) + 1], HexChars[(u % 16) + 1]>>

\* what json.dumps (ensure_ascii) writes for the character of code point n:
\* the short escapes, the printable ASCII character itself (the grave
\* accent in the notation of this module), \uxxxx for any other character
\* of the basic plane, a surrogate pair beyond it
JsonCodePoint(n) ==
    CASE n = 34 -> <<"\\", "\"">>
      [] n = 92 -> <<"\\", "\\">>
      [] n = 8 -> <<"\\", "b">>
      [] n = 9 -> <<"\\", "t">>
      [] n = 10 -> <<"\\", "n">>
      [] n = 12 -> <<"\\", "f">>
      [] n = 13 -> <<"\\", "r">>
      [] n >= 65536 -> JsonUnit(55296 + ((n - 65536) \div 1024))
                       \o JsonUnit(56320 + ((n - 65536) % 1024))
      [] n >= 32 /\ n <= 95 -> <<AsciiLow[n - 31]>>
      [] n = 96 -> <<"U+", "0", "0", "0", "0", "6", "0">>
      [] n >= 97 /\ n <= 126 -> <<AsciiHigh[n - 96]>>
      [] OTHER -> JsonUnit(n)

\* the escape of a character that is a piece of its own
JsonEscapeChar(c) == JsonCodePoint(CodePoint(c))

RECURSIVE JsonEscape(_)
\* the body of a JSON string: every character with its escape
JsonEscape(text) ==
    IF text = <<>> THEN <<>>
    ELSE IF Head(text) = "U+"
    THEN JsonCodePoint(HexVal(SubSeq(text, 2, 7))) \o JsonEscape(SubSeq(text, 8, Len(text)))
    ELSE JsonEscapeChar(Head(text)) \o JsonEscape(Tail(text))

JsonString(text) == <<"\"">> \o JsonEscape(text) \o <<"\"">>

RECURSIVE JsonEntries(_)
\* the entries of the mapping, each a <<key, value>> of two texts
JsonEntries(args) ==
    IF args = <<>> THEN <<>>
    ELSE JsonString(args[1][1]) \o <<":", " ">> \o JsonString(args[1][2])
         \o (IF Len(args) > 1 THEN <<",", " ">> ELSE <<>>)
         \o JsonEntries(Tail(args))

\* json.dumps(request.arguments) with its default separators
JsonDumps(args) == <<"{">> \o JsonEntries(args) \o <<"}">>

\* seeded fault: the mapping is serialized whatever its size
FlattenAlwaysDumps(args) == JsonDumps(args)

\* input_value of call_tool
FlattenArgs(args) == IF Len(args) = 1 THEN args[1][2] ELSE JsonDumps(args)

\* seeded fault: an unknown tool name is answered with an HTTPException
ToolResponseFaults(name, args) ==
    IF name \notin tools
    THEN Response("tool", "fault", <<"tool '", name, "' does not exist">>, <<>>)
    ELSE Response("tool", "ok", <<>>, ToolFunc(name, FlattenArgs(args)).text)

\* the ToolResponse of call_tool: the unknown name, the except branch, the result
ToolResponse(name, args) ==
    IF name \notin tools
    THEN Response("tool", "soft", <<"tool '", name, "' does not exist">>, <<>>)
    ELSE LET out == ToolFunc(name, FlattenArgs(args))
         IN IF out.raised THEN Response("tool", "soft", out.text, <<>>)
            ELSE Response("tool", "ok", <<>>, out.text)

\* the tool function calls call_tool makes
ToolCalls(name, args) ==
    IF name \notin tools THEN NoObservation
    ELSE [NoObservation EXCEPT !.calls = 1, !.tool = name,
                               !.input = FlattenArgs(args),
                               !.evaluated = ToolFunc(name, FlattenArgs(args)).evaluated]

CallTool(name, args) ==
    /\ resp' = ToolResponse(name, args)
    /\ obs' = ToolCalls(name, args)
    /\ UNCHANGED <<models, constructed, tools, agents, initialized, apiKey, pending, loop, starlette>>

\* the key the calculator's argument is sent under
ExpressionKey == <<"e", "x", "p", "r", "e", "s", "s", "i", "o", "n">>

\* argument mappings of the tool requests of Spec
ArgInputs ==
    {<<<<<<"x">>, <<"5">>>>, <<<<"y">>, <<"6">>>>>>,
     <<<<ExpressionKey, <<"1", "/", "0">>>>>>}

\* request.get("tool") of the tool.preload requests
ToolPreloadInputs == {"calculator", "nope", NoneStr, ""}

(* ------------------------------- service ------------------------------- *)
Next ==
    \/ \E k \in BOOLEAN : SetEnv(k)
    \/ InitializeService
    \/ \E m \in ModelNames, msgs \in MessageInputs, invokeOk \in BOOLEAN :
            Chat(m, msgs, invokeOk)
    \/ \E name \in ToolNames, args \in ArgInputs : CallTool(name, args)
    \/ \E m \in ModelNames, t \in ChainTypeInputs, runOk \in BOOLEAN :
            ExecuteChain(m, t, runOk)
    \/ \E id \in AgentIds, m \in ModelNames, r \in AgentInputs :
            CreateAgent(id, r.type, m, r.tools, r.config, r.agentOk)
    \/ \E id \in AgentIds \cup {NoneStr} : DeleteAgent(id)
    \/ \E m \in ModelNames \cup {NoneSeq, EmptyName} : PreloadModel(m)
    \/ \E t \in ToolPreloadInputs : PreloadTool(t)

Spec == Init /\ [][Next]_vars

(* ---------------- the tool operation over many requests ---------------- *)
\* characters of the enumerated calculator expressions: digits, every
\* operator character, the point, the space, and one that is not allowed
ExprAlphabet == {"0", "1", "2", "+", "-", "*", "/", "(", ")", ".", " ", ";"}

\* every expression over ExprAlphabet of at most MaxExprLen characters
ShortExprs == UNION {[1..n -> ExprAlphabet] : n \in 0..MaxExprLen}

SampleExprs ==
    {<<"2", "+", "2", "*", "3">>,
     <<"2", "+", "2", ";", " ", "r", "m">>,
     <<"(", "2", "+", "3", ")", "*", "2">>,
     <<"1", "0", " ", "-", " ", "4">>,
     <<"7", "/", "2">>,
     <<"7", "/", "/", "2">>,
     <<"2", "*", "*", "3">>,
     <<"1", "/", "(", "3", "-", "3", ")">>,
     <<"_", "_", "i", "m", "p", "o", "r", "t", "_", "_">>}

\* argument mappings with no entry, one entry, two and three entries
WideArgInputs ==
    {<<>>,
     <<<<<<"x">>, <<"5">>>>>>,
     <<<<<<"x">>, <<"5">>>>, <<<<"y">>, <<"6">>>>>>,
     <<<<<<"a">>, <<"1">>>>, <<<<"b">>, <<"\"">>>>, <<<<"c">>, <<>>>>>>,
     <<<<<<"a", "\"", "b">>, <<"\t", "\\">>>>,
       <<<<"U+", "0", "0", "0", "0", "e", "9">>,
         <<"\n", "U+", "0", "1", "f", "6", "0", "0">>>>>>,
     <<<<<<"k", "\\">>, <<"U+", "0", "0", "0", "0", "7", "f">>>>,
       <<<<>>, <<"U+", "0", "0", "0", "0", "0", "1", "~">>>>>>}

ToolRequests ==
    {ToolRequest("calculator", <<<<ExpressionKey, e>>>>) : e \in ShortExprs \cup SampleExprs}
    \cup {ToolRequest(name, args) : name \in ToolNames, args \in WideArgInputs}

\* call_tool on the request that is waiting
HandlePending ==
    /\ pending # NoRequest
    /\ CallTool(pending.tool_name, pending.arguments)

InitTool ==
    /\ models = [m \in ModelNames |-> NoHandle]
    /\ constructed = [m \in ModelNames |-> 0]
    /\ tools = {}
    /\ agents = [a \in AgentIds |-> NoAgent]
    /\ initialized = FALSE
    /\ apiKey \in BOOLEAN
    /\ resp = Response("none", "ok", <<>>, <<>>)
    /\ obs = NoObservation
    /\ pending \in ToolRequests
    /\ loop = NoLoop
    /\ starlette = "status_detail"

NextTool ==
    \/ InitializeService
    \/ HandlePending

SpecTool == InitTool /\ [][NextTool]_vars

(* ------------- the operations that resolve a model, alone -------------- *)
NextResolve ==
    \/ \E k \in BOOLEAN : SetEnv(k)
    \/ \E m \in ModelNames, msgs \in MessageInputs, invokeOk \in BOOLEAN :
            Chat(m, msgs, invokeOk)
    \/ \E m \in ModelNames, t \in ChainTypeInputs, runOk \in BOOLEAN :
            ExecuteChain(m, t, runOk)
    \/ \E id \in AgentIds, m \in ModelNames, r \in AgentInputs :
            CreateAgent(id, r.type, m, r.tools, r.config, r.agentOk)
    \/ \E m \in ModelNames \cup {NoneSeq, EmptyName} : PreloadModel(m)

SpecResolve == Init /\ [][NextResolve]_vars

(* --------- the resolving handlers, statement by statement -------------- *)
(* chat, execute_chain, create_agent and preload_model begin with the same  *)
(* two statements: the membership test of the cache, then the construction  *)
(* and the cache write.  The event loop runs a coroutine from where it is   *)
(* until its next await or its return.                                      *)
LoopOps == {"chat", "chain", "agent.create", "model.preload"}

\* seeded fault: an await between the membership test and the cache write
SuspendsBeforeStore(pc) == pc = "store"

\* whether the handler gives up the event loop on reaching pc: the handlers
\* hold no await (model(messages), chain.run and initialize_agent are
\* called synchronously)
Suspends(pc) == FALSE

\* the event loop can run a step of coroutine t
Scheduled(t) == loop.running = t \/ loop.running = NoTask

\* the loop after a step of t that leaves t at pc
LoopAfter(t, task, pc) ==
    [running |-> IF pc = "idle" \/ Suspends(pc) THEN NoTask ELSE t,
     task |-> [loop.task EXCEPT ![t] = IF pc = "idle" THEN IdleTask
                                         ELSE [task EXCEPT !.pc = pc]]]

\* a request arrives and its handler coroutine is created
Receive(t, op, m) ==
    /\ loop.task[t].pc = "idle"
    /\ loop' = [loop EXCEPT !.task[t] =
                    [pc |-> "check", op |-> op, model |-> m, miss |-> FALSE]]
    /\ UNCHANGED <<models, constructed, tools, agents, initialized, apiKey, resp,
                   obs, pending, starlette>>

\* `if request.model not in state.models:`
LoopCheck(t) ==
    LET task == loop.task[t]
        miss == models[task.model] = NoHandle
    IN /\ task.pc = "check"
       /\ Scheduled(t)
       /\ loop' = LoopAfter(t, [task EXCEPT !.miss = miss],
                            IF miss THEN "store" ELSE "tail")
       /\ UNCHANGED <<models, constructed, tools, agents, initialized, apiKey,
                      resp, obs, pending, starlette>>

\* the requests of the coroutines: a chat with one user message, a chain of
\* type llm, the creation of a conversational agent a1 without tools, a
\* preload
LoopMessages == <<Msg("user")>>

\* what the handler of op did up to the model resolution; create_agent
\* overwrites the record the store holds under a1, if any
LoopObserved(op, m, hit, built) ==
    [Observed(m, hit, built)
        EXCEPT !.had = (op = "agent.create" /\ agents["a1"] # NoAgent)]

\* the response of the handler of op when create_chat_model raises
LoopFailure(op, m) ==
    CASE op = "chat" ->
            Response("chat", "fault",
                                 <<"chat_failed: ">> \o HttpStr("500", CreateError(m)), <<>>)
      [] op = "chain" -> Response("chain", "soft", HttpStr("500", CreateError(m)), <<>>)
      [] op = "agent.create" ->
            Response("agent.create", "fault",
                     <<"create_agent_failed: ">> \o HttpStr("500", CreateError(m)), <<>>)
      [] op = "model.preload" ->
            Response("model.preload", "fault",
                     <<"preload_model_failed: ">> \o HttpStr("500", CreateError(m)),
                                   <<>>)

\* `state.models[request.model] = create_chat_model(request.model)`
LoopStore(t) ==
    LET task == loop.task[t]
        m == task.model
    IN /\ task.pc = "store"
       /\ Scheduled(t)
       /\ CanCreate(m) => constructed[m] < MaxHandles
       /\ IF CanCreate(m)
          THEN /\ models' = [models EXCEPT ![m] = NewHandle(m)]
               /\ constructed' = [constructed EXCEPT ![m] = @ + 1]
               /\ loop' = LoopAfter(t, task, "tail")
               /\ UNCHANGED <<resp, obs>>
          ELSE /\ resp' = LoopFailure(task.op, m)
               /\ obs' = LoopObserved(task.op, m, FALSE, FALSE)
               /\ loop' = LoopAfter(t, task, "idle")
               /\ UNCHANGED <<models, constructed>>
       /\ UNCHANGED <<tools, agents, initialized, apiKey, pending, starlette>>

\* the response of the rest of the handler of op; ok: whether the provider
\* call of chat or chain returns
LoopSuccess(op, m, ok) ==
    CASE op = "chat" ->
            IF ok THEN Response("chat", "ok", <<>>, <<"<content>">> \o m)
            ELSE Response("chat", "fault", <<"chat_failed: ", "<provider error>">>, <<>>)
      [] op = "chain" ->
            IF ok THEN Response("chain", "ok", <<>>, <<"<chain result>">>)
            ELSE Response("chain", "soft", <<"<chain error>">>, <<>>)
      [] op = "agent.create" -> Response("agent.create", "ok", <<>>, <<"a1">>)
      [] op = "model.preload" -> Response("model.preload", "ok", <<>>, m)

\* `model = state.models[request.model]` and the rest of the handler
LoopTail(t, ok) ==
    LET task == loop.task[t]
        m == task.model
    IN /\ task.pc = "tail"
       /\ Scheduled(t)
       /\ resp' = LoopSuccess(task.op, m, ok)
       /\ obs' = [LoopObserved(task.op, m, ~task.miss, task.miss)
                    EXCEPT !.handle = models[m],
                           !.context = IF task.op = "chat"
                                       THEN BuildMessages(LoopMessages) ELSE <<>>,
                           !.ran = IF task.op = "chain" THEN ChainType("llm")
                                   ELSE NoneStr]
       /\ agents' = IF task.op = "agent.create"
                    THEN StoreAgent("a1", AgentData("conversational", m, models[m],
                                                    NoneSeq, NoneSeq))
                    ELSE agents
       /\ loop' = LoopAfter(t, task, "idle")
       /\ UNCHANGED <<models, constructed, tools, initialized, apiKey, pending, starlette>>

NextLoop ==
    \/ \E k \in BOOLEAN : SetEnv(k)
    \/ \E t \in Tasks, op \in LoopOps, m \in ModelNames : Receive(t, op, m)
    \/ \E t \in Tasks : LoopCheck(t)
    \/ \E t \in Tasks : LoopStore(t)
    \/ \E t \in Tasks, ok \in BOOLEAN : LoopTail(t, ok)

SpecLoop == Init /\ [][NextLoop]_vars

(***************************************************************************)
(*                              Properties                                 *)
(***************************************************************************)
ResolvingOps == {"chat", "chain", "agent.create", "model.preload"}

\* a step of chat, chain, agent.create or model.preload that resolves m
ResolveAction(m) ==
    \/ /\ resp'.op = "chat"
       /\ \E msgs \in MessageInputs, invokeOk \in BOOLEAN : Chat(m, msgs, invokeOk)
    \/ /\ resp'.op = "chain"
       /\ \E t \in ChainTypeInputs, runOk \in BOOLEAN : ExecuteChain(m, t, runOk)
    \/ /\ resp'.op = "agent.create"
       /\ \E id \in AgentIds, r \in AgentInputs :
            CreateAgent(id, r.type, m, r.tools, r.config, r.agentOk)
    \/ /\ resp'.op = "model.preload"
       /\ PreloadModel(m)

\* the same step; its first two conjuncts follow from the third and spare
\* the evaluation of it on the steps of the other operations
ResolveStep(m) ==
    /\ resp'.op \in ResolvingOps
    /\ obs'.model = m
    /\ ResolveAction(m)

\* the response carries the detail of the error create_chat_model raised
ModelFailure(r) == \E i \in 1..Len(r.error) : r.error[i] = "create_model_failed: "

\* the handler neither found a handle in the cache nor constructed one
ResolveFailed(o) == ~o.hit /\ ~o.built

SupportedName(m) == Len(m) >= 4 /\ SubSeq(m, 1, 4) = <<"g", "p", "t", "-">>

\* C1: over every sequence of chat, chain, agent.create and model.preload, a
\* handle for m is constructed only by the first resolution of m that
\* succeeds: the construction counter of m never passes 1, a resolution of a
\* cached m constructs nothing and goes on with the cached handle, and a
\* resolution that constructs found no entry and adds exactly one.
C1_OnlyFirstResolutionConstructs ==
    /\ [](\A m \in ModelNames :
            /\ constructed[m] <= 1
            /\ (models[m] # NoHandle <=> constructed[m] = 1))
    /\ [][\A m \in ModelNames : ResolveStep(m) =>
            /\ (models[m] # NoHandle =>
                    /\ constructed'[m] = constructed[m]
                    /\ models'[m] = models[m]
                    /\ obs'.handle = models[m])
            /\ (constructed'[m] # constructed[m] =>
                    /\ models[m] = NoHandle
                    /\ models'[m] # NoHandle
                    /\ constructed'[m] = constructed[m] + 1)]_vars

\* a later resolution of the cached gpt-3.5-turbo has returned its one handle
C1_Witness ==
    /\ resp.op \in ResolvingOps
    /\ obs.model = GPT35 /\ obs.hit /\ ~obs.built
    /\ constructed[GPT35] = 1
    /\ obs.handle = models[GPT35]

\* C2: in every reachable state at most one handle was ever constructed for
\* each model identifier, and every agent record bound to an identifier
\* holds the handle the cache holds for it.
C2_OneHandlePerIdentifier ==
    /\ \A m \in ModelNames : constructed[m] <= 1
    /\ \A a \in AgentIds :
          agents[a] # NoAgent => agents[a].llm[2] = models[agents[a].llm[1]]

\* C3: a resolution of m that fails leaves the model cache as it was, with no
\* entry for m; a resolution of an uncached m fails exactly when m is
\* unsupported or the credential is missing, so a retry with the cause gone
\* constructs the handle and caches it.  The response of a failed resolution
\* is not a success, and carries the detail of the construction error when
\* str() of an HTTPException gives its detail.
C3_FailureNotCached ==
    [][\A m \in ModelNames : ResolveStep(m) =>
          /\ (ResolveFailed(obs') =>
                /\ models' = models
                /\ constructed' = constructed
                /\ models'[m] = NoHandle
                /\ resp'.status # "ok"
                /\ (starlette = "status_detail" => ModelFailure(resp')))
          /\ (ModelFailure(resp') => ResolveFailed(obs'))
          /\ (models[m] = NoHandle /\ SupportedName(m) /\ apiKey =>
                /\ ~ResolveFailed(obs')
                /\ models'[m] # NoHandle
                /\ constructed'[m] = constructed[m] + 1)
          /\ (models[m] = NoHandle /\ ~(SupportedName(m) /\ apiKey) =>
                ResolveFailed(obs'))]_vars

\* a resolution of gpt-3.5-turbo has failed for the missing credential
C3_Witness ==
    /\ resp.op \in ResolvingOps
    /\ resp.status # "ok"
    /\ obs.model = GPT35 /\ ResolveFailed(obs)
    /\ ~apiKey
    /\ models[GPT35] = NoHandle

\* C4: for every agent identifier agent.create accepts, a successful create
\* leaves a record under it, agent.delete of it answers success and leaves
\* none, and agent.delete of an identifier without a record changes nothing.
C4_AgentLifecycle ==
    [][\A id \in AgentIds :
          /\ (\E m \in ModelNames, r \in AgentInputs :
                 /\ CreateAgent(id, r.type, m, r.tools, r.config, r.agentOk)
                 /\ resp'.status = "ok")
             => agents'[id] # NoAgent
          /\ DeleteAgent(id) =>
                /\ resp'.status = "ok"
                /\ agents'[id] = NoAgent
                /\ (agents[id] = NoAgent => agents' = agents)]_vars

\* C5: agent.create on an identifier that has a record succeeds as it would
\* without one, and the record is then the one of the new request (its kind,
\* tools, config and resolved handle); the records of the other identifiers
\* are unchanged.
C5_CreateOverwrites ==
    [][\A id \in AgentIds, m \in ModelNames, r \in AgentInputs :
          (/\ resp'.op = "agent.create"
           /\ obs'.model = m
           /\ CreateAgent(id, r.type, m, r.tools, r.config, r.agentOk)) =>
             /\ (resp'.status = "ok" =>
                   /\ agents'[id].type = r.type
                   /\ agents'[id].tools = (IF r.tools = NoneSeq THEN <<>> ELSE r.tools)
                   /\ agents'[id].config = (IF r.config = NoneSeq THEN <<>> ELSE r.config)
                   /\ agents'[id].llm = <<m, models'[m]>>
                   /\ \A o \in AgentIds \ {id} : agents'[o] = agents[o])
             /\ (/\ r.type = "conversational"
                 /\ (models[m] # NoHandle \/ (SupportedName(m) /\ apiKey))
                 => resp'.status = "ok")]_vars

\* agent a1 was created over a record it had, next to a record under ""
C5_Witness ==
    /\ resp.op = "agent.create" /\ resp.status = "ok" /\ resp.result = <<"a1">>
    /\ obs.had
    /\ agents["a1"].type = "tool_using"
    /\ agents[""] # NoAgent

\* C6: agent.delete changes the agent store entry of its identifier and
\* nothing else: not the model cache, the tool registry, the initialized
\* flag, nor the record of another identifier.
C6_DeleteFrame ==
    [][\A id \in AgentIds \cup {NoneStr} :
          (resp'.op = "agent.delete" /\ DeleteAgent(id)) =>
          /\ UNCHANGED <<models, constructed, tools, initialized, apiKey>>
          /\ \A o \in AgentIds \ {id} : agents'[o] = agents[o]]_vars

\* an agent bound to the cached handle was deleted, another one is left
C6_Witness ==
    /\ resp.op = "agent.delete" /\ resp.status = "ok"
    /\ obs.had
    /\ models[GPT35] # NoHandle
    /\ \E o \in AgentIds : agents[o] # NoAgent

\* C7: the tool operation never ends in a fault; with a name that is not in
\* the registry it answers success=false with a non-empty error and calls no
\* tool function; every success=false answer carries an error; the model
\* cache, tool registry, agent store and initialized flag are unchanged.
C7_ToolNeverFaults ==
    [][HandlePending =>
          /\ resp'.op = "tool"
          /\ resp'.status # "fault"
          /\ (pending.tool_name \notin tools =>
                /\ resp'.status = "soft"
                /\ Len(resp'.error) > 0
                /\ obs'.calls = 0)
          /\ (resp'.status = "soft" => Len(resp'.error) > 0)
          /\ UNCHANGED <<models, constructed, tools, agents, initialized>>]_vars

\* an unknown tool was asked for, of an initialized service with a cached model
C7_Witness ==
    /\ resp.op = "tool" /\ resp.status = "soft" /\ Len(resp.error) > 0
    /\ pending.tool_name = "nope"
    /\ tools = BuiltinTools
    /\ models[GPT35] # NoHandle
    /\ obs.calls = 0

\* C8: when the calculator fails to evaluate an input of allowed characters,
\* the response carries success=false and an error description.
C8_ComputationFailureIsSoft ==
    (/\ resp.op = "tool"
     /\ obs.calls = 1 /\ obs.tool = "calculator" /\ obs.evaluated
     /\ Eval(obs.input).k = "raise")
    => (resp.status = "soft" /\ Len(resp.error) > 0)

\* the allow-list as the specification gives it
C9_AllowList ==
    {"0", "1", "2", "3", "4", "5", "6", "7", "8", "9",
     "+", "-", "*", "/", ".", "(", ")", " "}

\* expressions and the text of their values
C9_Expected ==
    {<<<<"2", "+", "2", "*", "3">>, <<"8">>>>,
     <<<<"(", "2", "+", "3", ")", "*", "2">>, <<"1", "0">>>>,
     <<<<"1", "0", " ", "-", " ", "4">>, <<"6">>>>,
     <<<<"7", "/", "2">>, <<"3", ".", "5">>>>,
     <<<<"7", "/", "/", "2">>, <<"3">>>>,
     <<<<"2", "*", "*", "3">>, <<"8">>>>,
     <<<<"1", "-", "2">>, <<"-", "1">>>>,
     <<<<"1", "/", "2">>, <<"0", ".", "5">>>>}

\* C9: the calculator reaches eval exactly when every character of its input
\* is in the allow-list; for any other input it returns the fixed error text
\* and does not raise; for an allowed expression that evaluates it returns
\* the value as text ("2+2*3" gives "8").
C9_AllowListGuardsEval ==
    (resp.op = "tool" /\ obs.calls = 1 /\ obs.tool = "calculator") =>
        LET e == obs.input
            allowed == \A i \in 1..Len(e) : e[i] \in C9_AllowList
        IN /\ resp.status = "ok"
           /\ obs.evaluated <=> allowed
           /\ ~allowed => resp.result = <<"error: disallowed characters">>
           /\ \A p \in C9_Expected : e = p[1] => resp.result = p[2]
           /\ (allowed /\ Eval(e).k \notin {"raise", "unknown"}) =>
                    resp.result = Str(Eval(e))

\* the calculator was given "2+2*3" and returned "8"
C9_Witness ==
    /\ resp.op = "tool" /\ obs.calls = 1 /\ obs.tool = "calculator"
    /\ obs.input = <<"2", "+", "2", "*", "3">>
    /\ obs.evaluated
    /\ resp.result = <<"8">>

\* argument mappings that are not of one entry, and their serialization
C10_Expected ==
    {<<<<>>, <<"{", "}">>>>,
     <<<<<<<<"x">>, <<"5">>>>, <<<<"y">>, <<"6">>>>>>,
       <<"{", "\"", "x", "\"", ":", " ", "\"", "5", "\"", ",", " ",
         "\"", "y", "\"", ":", " ", "\"", "6", "\"", "}">>>>,
     <<<<<<<<"a">>, <<"1">>>>, <<<<"b">>, <<"\"">>>>, <<<<"c">>, <<>>>>>>,
       <<"{", "\"", "a", "\"", ":", " ", "\"", "1", "\"", ",", " ",
         "\"", "b", "\"", ":", " ", "\"", "\\", "\"", "\"", ",", " ",
         "\"", "c", "\"", ":", " ", "\"", "\"", "}">>>>,
     \* {"a\"b": "\t\\", "\u00e9": "\n\ud83d\ude00"}
     <<<<<<<<"a", "\"", "b">>, <<"\t", "\\">>>>,
         <<<<"U+", "0", "0", "0", "0", "e", "9">>,
           <<"\n", "U+", "0", "1", "f", "6", "0", "0">>>>>>,
       <<"{", "\"", "a", "\\", "\"", "b", "\"", ":", " ",
         "\"", "\\", "t", "\\", "\\", "\"", ",", " ",
         "\"", "\\", "u", "0", "0", "e", "9", "\"", ":", " ",
         "\"", "\\", "n", "\\", "u", "d", "8", "3", "d",
         "\\", "u", "d", "e", "0", "0", "\"", "}">>>>,
     \* {"k\\": "\u007f", "": "\u0001~"}
     <<<<<<<<"k", "\\">>, <<"U+", "0", "0", "0", "0", "7", "f">>>>,
         <<<<>>, <<"U+", "0", "0", "0", "0", "0", "1", "~">>>>>>,
       <<"{", "\"", "k", "\\", "\\", "\"", ":", " ",
         "\"", "\\", "u", "0", "0", "7", "f", "\"", ",", " ",
         "\"", "\"", ":", " ",
         "\"", "\\", "u", "0", "0", "0", "1", "~", "\"", "}">>>>}

\* C10: for a registered tool the function is called exactly once, with one
\* input: the value of the entry when the mapping has exactly one entry, the
\* serialization of the whole mapping when it has none or several.
C10_ArgumentFlattening ==
    [][(HandlePending /\ pending.tool_name \in tools) =>
          LET args == pending.arguments
          IN /\ obs'.calls = 1
             /\ obs'.tool = pending.tool_name
             /\ Len(args) = 1 => obs'.input = args[1][2]
             /\ Len(args) # 1 =>
                   /\ \E p \in C10_Expected : Len(p[1]) = Len(args) /\ p[1] = args
                   /\ \A p \in C10_Expected :
                         (Len(p[1]) = Len(args) /\ p[1] = args) => obs'.input = p[2]]_vars

\* a tool was called with the serialization of a mapping of two entries
C10_Witness ==
    /\ resp.op = "tool" /\ obs.calls = 1
    /\ Len(pending.arguments) = 2
    /\ obs.input = <<"{", "\"", "x", "\"", ":", " ", "\"", "5", "\"", ",", " ",
                     "\"", "y", "\"", ":", " ", "\"", "6", "\"", "}">>

\* C11: the chain operation never ends in a fault; a type that is neither
\* llm nor conversation gives success=false with an error and runs no chain;
\* a failure while the operation runs (the model resolution, the chain run)
\* gives success=false with the text of the error, which for the model
\* resolution is str() of an HTTPException (its detail, or nothing at all);
\* a missing type runs the llm chain.
C11_ChainNeverFaults ==
    [][\A m \in ModelNames, t \in ChainTypeInputs, runOk \in BOOLEAN :
          (resp'.op = "chain" /\ obs'.model = m /\ ExecuteChain(m, t, runOk)) =>
             LET resolved == models'[m] # NoHandle
                 type == IF t = NoneStr THEN "llm" ELSE t
             IN /\ resp'.status # "fault"
                /\ (resp'.status = "soft" /\ resolved => Len(resp'.error) > 0)
                /\ (type \notin {"llm", "conversation"} =>
                        resp'.status = "soft" /\ obs'.ran = NoneStr)
                /\ (~resolved =>
                        /\ resp'.status = "soft" /\ obs'.ran = NoneStr
                        /\ (starlette = "status_detail" => ModelFailure(resp'))
                        /\ (starlette = "empty" => resp'.error = <<>>))
                /\ (resolved /\ type \in {"llm", "conversation"} =>
                        /\ obs'.ran = type
                        /\ (runOk => resp'.status = "ok")
                        /\ (~runOk => resp'.status = "soft"))
                /\ UNCHANGED <<tools, agents, initialized>>]_vars

\* a chain of an unknown type was refused with the model resolved
C11_Witness ==
    /\ resp.op = "chain" /\ resp.status = "soft"
    /\ resp.error = <<"unsupported_chain_type: ", "unknown">>
    /\ obs.model = GPT35 /\ obs.handle # NoHandle
    /\ obs.ran = NoneStr

\* C12: an operation that resolves a model and fails to (unsupported
\* identifier, missing credential) ends in a fault, never in a success or a
\* success=false response; so does agent.create with an unknown agent type.
C12_ResolutionFailureIsFault ==
    /\ (resp.op \in ResolvingOps /\ obs.model \in ModelNames /\ obs.handle = NoHandle)
          => resp.status = "fault"
    /\ (resp.op \in ResolvingOps /\ ModelFailure(resp)) => resp.status = "fault"
    /\ (resp.op = "agent.create"
        /\ \E i \in 1..Len(resp.error) : resp.error[i] = "unsupported_agent_type: ")
          => resp.status = "fault"

C13_Recognized == {"user", "assistant", "system"}

C13_Kind(role) ==
    CASE role = "user" -> "HumanMessage"
      [] role = "assistant" -> "AIMessage"
      [] role = "system" -> "SystemMessage"

\* the messages of recognized role, in their order, as the provider's kinds
C13_Context(msgs) ==
    LET kept == SelectSeq(msgs, LAMBDA x : x.role \in C13_Recognized)
    IN [i \in 1..Len(kept) |->
            [kind |-> C13_Kind(kept[i].role), content |-> kept[i].content]]

\* C13: in chat, with the model resolved, the context given to the model is
\* the subsequence of the input messages of role user, assistant or system,
\* in input order; messages of another role are left out without an error,
\* and when the provider answers the response is a success that carries the
\* requested model identifier.
C13_ChatContext ==
    [][\A m \in ModelNames, msgs \in MessageInputs, invokeOk \in BOOLEAN :
          (/\ resp'.op = "chat" /\ obs'.model = m
           /\ Chat(m, msgs, invokeOk)
           /\ models'[m] # NoHandle) =>
             /\ obs'.context = C13_Context(msgs)
             /\ (invokeOk => /\ resp'.status = "ok"
                             /\ resp'.result = <<"<content>">> \o m)]_vars

\* a chat with a message of role tool succeeded, the tool message left out
C13_Witness ==
    /\ resp.op = "chat" /\ resp.status = "ok"
    /\ resp.result = <<"<content>">> \o GPT35
    /\ Len(obs.context) = 2
    /\ obs.context[1].kind = "HumanMessage"
    /\ obs.context[2].kind = "AIMessage"

\* C14: agent.create with tool names that are not registered raises no error
\* for either kind, and the tool names of the stored record are only names
\* that were registered when it was created, in their requested order.
C14_UnknownToolsDropped ==
    [][\A id \in AgentIds, m \in ModelNames, r \in AgentInputs :
          (/\ resp'.op = "agent.create" /\ obs'.model = m
           /\ CreateAgent(id, r.type, m, r.tools, r.config, r.agentOk)) =>
             /\ (/\ models'[m] # NoHandle
                 /\ (r.type = "conversational" \/ (r.type = "tool_using" /\ r.agentOk)))
                   => resp'.status = "ok"
             /\ resp'.status = "ok" =>
                   agents'[id].tools =
                       SelectSeq(IF r.tools = NoneSeq THEN <<>> ELSE r.tools,
                                 LAMBDA n : n \in tools)]_vars

\* C15: initialize answers success, leaves calculator, search and weather
\* registered and the initialized flag set, whether or not the default model
\* can be constructed; with the credential missing the model cache is left as
\* it was, with it present the default model is cached.
C15_InitializeBestEffort ==
    [][(resp'.op = "initialize" /\ InitializeService) =>
          /\ resp'.status = "ok"
          /\ {"calculator", "search", "weather"} \subseteq tools'
          /\ initialized'
          /\ (~apiKey => models' = models /\ constructed' = constructed)
          /\ (apiKey => models'[GPT35] # NoHandle)
          /\ agents' = agents]_vars

\* initialize has succeeded without the credential and without a cached model
C15_Witness ==
    /\ resp.op = "initialize" /\ resp.status = "ok"
    /\ ~apiKey /\ ~obs.built
    /\ models[GPT35] = NoHandle
    /\ initialized /\ tools = BuiltinTools

\* C16 as stated: tool.preload answers success for every tool name, in the
\* registry or not, and changes nothing.
C16_ToolPreloadAlwaysSucceeds ==
    [][\A t \in {"calculator", "nope", ""} :
          (resp'.op = "tool.preload" /\ PreloadTool(t)) =>
             /\ resp'.status = "ok"
             /\ UNCHANGED <<tools, models, constructed, agents, initialized>>]_vars

\* C16 amended: tool.preload answers success, with the name, for every
\* non-empty tool name, in the registry or not; an empty or missing name is
\* answered with a fault; in every case nothing is changed.
C16_ToolPreloadNoOp ==
    [][\A t \in ToolPreloadInputs :
          (resp'.op = "tool.preload" /\ PreloadTool(t)) =>
             /\ (t # NoneStr /\ t # "") =>
                   (resp'.status = "ok" /\ resp'.result = <<t>>)
             /\ (t = NoneStr \/ t = "") => resp'.status = "fault"
             /\ UNCHANGED <<tools, models, constructed, agents, initialized>>]_vars

\* a name that is not registered was preloaded, of an initialized service
C16_Witness ==
    /\ resp.op = "tool.preload" /\ resp.status = "ok"
    /\ resp.result = <<"nope">>
    /\ initialized /\ "nope" \notin tools /\ tools # {}

\* C18: no step removes an identifier from the model cache.
C18_CacheOnlyGrows ==
    [][\A m \in ModelNames : models[m] # NoHandle => models'[m] # NoHandle]_vars

\* initialize has failed to construct the default model, which stayed cached
C18_Witness ==
    /\ resp.op = "initialize"
    /\ ~apiKey /\ obs.hit /\ ~obs.built
    /\ models[GPT35] # NoHandle

\* C19: agent.create ends in a fault for an unknown type, a failed model
\* resolution and a failed agent construction, and then leaves the agent
\* store (and registry and flag) as they were; of the model cache only the
\* entry of the requested model may have been added.
C19_FailedCreateKeepsStore ==
    [][\A id \in AgentIds, m \in ModelNames, r \in AgentInputs :
          (/\ resp'.op = "agent.create" /\ obs'.model = m
           /\ CreateAgent(id, r.type, m, r.tools, r.config, r.agentOk)) =>
             /\ (\/ r.type \notin {"conversational", "tool_using"}
                 \/ models'[m] = NoHandle
                 \/ (r.type = "tool_using" /\ ~r.agentOk))
                   => resp'.status = "fault"
             /\ resp'.status = "fault" =>
                   /\ agents' = agents
                   /\ UNCHANGED <<tools, initialized>>
                   /\ \A n \in ModelNames \ {m} : models'[n] = models[n]
                   /\ (models[m] # NoHandle => models'[m] = models[m])]_vars

\* the construction of a tool-using agent failed over the record of a1
C19_Witness ==
    /\ resp.op = "agent.create" /\ resp.status = "fault"
    /\ resp.error = <<"create_agent_failed: ", "<toolkit error>">>
    /\ obs.had
    /\ agents[""] = NoAgent
    /\ agents["a1"].type = "conversational"

\* C20: the registry is empty while the initialized flag is false and holds
\* calculator, search and weather once it is true; a tool operation before
\* initialize answers the unknown-tool failure and calls nothing; once
\* initialized, no step changes the registry or clears the flag; only a
\* successful initialize sets the flag.
C20_RegistryFixedByInitialize ==
    /\ [](/\ tools = (IF initialized THEN {"calculator", "search", "weather"} ELSE {})
          /\ (resp.op = "tool" /\ ~initialized) =>
                (resp.status = "soft" /\ Len(resp.error) > 0 /\ obs.calls = 0))
    /\ [][/\ initialized => (initialized' /\ tools' = tools)
          /\ (~initialized /\ initialized') =>
                (resp'.op = "initialize" /\ resp'.status = "ok")]_vars

\* a registered tool was called after initialize
C20_Witness ==
    /\ resp.op = "tool" /\ resp.status = "ok"
    /\ obs.calls = 1 /\ obs.tool = "calculator"
    /\ initialized /\ tools = BuiltinTools

\* C17 as stated: two operations in flight that resolve the same model
\* identifier, which is not cached, can interleave between the membership
\* test and the cache write: while one stands between its test and its write
\* the other can take its test (and then both construct a handle).
C17_ResolutionsCanInterleave ==
    \A a \in Tasks, b \in Tasks :
        (/\ a # b
         /\ loop.task[a].pc = "store"
         /\ loop.task[b].pc = "check"
         /\ loop.task[b].model = loop.task[a].model
         /\ models[loop.task[a].model] = NoHandle)
        => ENABLED LoopCheck(b)

\* C17 amended: a handler runs from its membership test to its return
\* without giving up the event loop, so no two handlers are past their test
\* at once, a handler that is past a test that found no entry still finds
\* none, and resolution alone constructs at most one handle per identifier.
C17_ResolutionsDoNotInterleave ==
    /\ \A m \in ModelNames : constructed[m] <= 1
    /\ \A a \in Tasks, b \in Tasks :
          (a # b /\ loop.task[a].pc \in {"store", "tail"})
             => loop.task[b].pc \in {"idle", "check"}
    /\ \A a \in Tasks :
          loop.task[a].pc = "store" =>
             (loop.running = a /\ models[loop.task[a].model] = NoHandle)

\* two requests for the uncached gpt-3.5-turbo are in flight, the first one
\* past its membership test, and the second one then finds the cached handle
C17_Witness ==
    \E a \in Tasks, b \in Tasks :
        /\ a # b
        /\ loop.task[a].pc = "tail" /\ loop.task[a].miss
        /\ loop.task[b].pc = "check"
        /\ loop.task[a].model = GPT35 /\ loop.task[b].model = GPT35
        /\ constructed[GPT35] = 1 /\ models[GPT35] # NoHandle

====
